---- MODULE Spec2Model ----
(***************************************************************************)
(* Azion MCP tools: each tool validates its input against a zod schema,    *)
(* issues one HTTP request to the Azion API and maps the response or the   *)
(* failure to its output object.  The model follows one tool invocation    *)
(* from the host's call to the value the host gets back.                   *)
(***************************************************************************)
EXTENDS Integers, Sequences, FiniteSets, TLC

(***************************************************************************)
(* Bounds of the model.                                                    *)
(***************************************************************************)
\* longest base64 text drawn for a certificate input
MaxB64Len == 4
\* longest list drawn for cnames / crl_list / criteria / behaviors
MaxList == 2
\* the most optional properties a generated patch input carries
MaxPresent == 2
\* the earlier invocations that are counted
MaxServed == 2

(***************************************************************************)
(* JavaScript / JSON values, tagged by type.  An object's payload is a     *)
(* function from the names of its own properties to values.                *)
(***************************************************************************)
Undef == [t |-> "undefined", v |-> 0]
Null == [t |-> "null", v |-> 0]
Bool(b) == [t |-> "boolean", v |-> b]
Num(n) == [t |-> "number", v |-> n]
\* a string is the sequence of its pieces (characters, or the parts a template
\* literal is put together from); Text(s) is a string in one piece
Str(s) == [t |-> "string", v |-> s]
Text(s) == Str(<<s>>)
Arr(s) == [t |-> "array", v |-> s]
Obj(f) == [t |-> "object", v |-> f]
EmptyObj == Obj(<<>>)

\* property read  o.f  on an object value (undefined when o has no such property)
Get(o, f) == IF f \in DOMAIN o.v THEN o.v[f] ELSE Undef

\* as OptGet, had an absent property been given the value null
OptGetOrNull(o, f) ==
  IF o.t = "object" /\ f \in DOMAIN o.v THEN o.v[f] ELSE Null

\* optional chaining  o?.f
OptGet(o, f) ==
  IF o.t \in {"undefined", "null"} THEN Undef
  ELSE IF o.t = "object" THEN Get(o, f)
  ELSE Undef

\* the characters of a string, joined
RECURSIVE Flat(_)
Flat(s) == IF Len(s) = 0 THEN "" ELSE s[1] \o Flat(Tail(s))

\* property read  x.f  on any value: [ok, value], or the TypeError thrown on null
\* and undefined
PropRead(x, f) ==
  IF x.t \in {"undefined", "null"}
    THEN [ok |-> FALSE, value |-> Undef,
          message |-> "Cannot read properties of " \o x.t \o " (reading '" \o f \o "')"]
  ELSE [ok |-> TRUE, value |-> IF x.t = "object" THEN Get(x, f) ELSE Undef, message |-> ""]

\* JSON.stringify of an object: properties whose value is undefined are left out
RECURSIVE JSONStringify(_)
JSONStringify(x) ==
  IF x.t = "object"
    THEN Obj([f \in {g \in DOMAIN x.v : x.v[g].t # "undefined"} |-> JSONStringify(x.v[f])])
  ELSE IF x.t = "array"
    THEN Arr([k \in 1..Len(x.v) |->
                IF x.v[k].t = "undefined" THEN Null ELSE JSONStringify(x.v[k])])
  ELSE x

\* the text a template literal `${x}` gives for a scalar
TemplateText(x) ==
  CASE x.t = "string" -> Flat(x.v)
    [] x.t = "number" -> ToString(x.v)
    [] x.t = "boolean" -> IF x.v THEN "true" ELSE "false"
    [] x.t = "null" -> "null"
    [] x.t = "undefined" -> "undefined"
    [] OTHER -> "[object Object]"

(***************************************************************************)
(* Base64.  A text is a sequence of one-character strings; a character of  *)
(* a decoded string is written as the number of its code unit.             *)
(***************************************************************************)
B64Alphabet ==
  << "A","B","C","D","E","F","G","H","I","J","K","L","M","N","O","P",
     "Q","R","S","T","U","V","W","X","Y","Z","a","b","c","d","e","f",
     "g","h","i","j","k","l","m","n","o","p","q","r","s","t","u","v",
     "w","x","y","z","0","1","2","3","4","5","6","7","8","9","+","/" >>

B64Chars == {B64Alphabet[k] : k \in 1..64}
B64Index(c) == (CHOOSE k \in 1..64 : B64Alphabet[k] = c) - 1
AsciiWhitespace == {" ", "\t", "\n", "\f", "\r"}

\* the bytes of a sequence of 6-bit values; leftover bits are dropped
SextetBytes(s) ==
  [k \in 1..((Len(s) * 6) \div 8) |->
     LET off == (k - 1) * 8
         j == (off \div 6) + 1
         r == off % 6
     IN CASE r = 0 -> s[j] * 4 + (s[j + 1] \div 16)
          [] r = 2 -> (s[j] % 16) * 16 + (s[j + 1] \div 4)
          [] r = 4 -> (s[j] % 4) * 64 + s[j + 1]]

Sextets(s) == [k \in 1..Len(s) |-> B64Index(s[k])]

\* atob's forgiving-base64 decode: [ok, value], value a string of code units 0..255
atob(data) ==
  LET noWs == SelectSeq(data, LAMBDA c : c \notin AsciiWhitespace)
      n == Len(noWs)
      trimmed ==
        IF n > 0 /\ n % 4 = 0
          THEN IF n >= 2 /\ noWs[n] = "=" /\ noWs[n - 1] = "="
                 THEN SubSeq(noWs, 1, n - 2)
               ELSE IF noWs[n] = "=" THEN SubSeq(noWs, 1, n - 1)
               ELSE noWs
        ELSE noWs
  IN IF Len(trimmed) % 4 = 1 \/ \E k \in 1..Len(trimmed) : trimmed[k] \notin B64Chars
       THEN [ok |-> FALSE, value |-> <<>>]
     ELSE [ok |-> TRUE, value |-> SextetBytes(Sextets(trimmed))]

\* position of the first "=" of s, or Len(s) + 1
FirstPad(s) ==
  IF \E k \in 1..Len(s) : s[k] = "="
    THEN CHOOSE k \in 1..Len(s) : s[k] = "=" /\ \A m \in 1..(k - 1) : s[m] # "="
  ELSE Len(s) + 1

\* Buffer.from(data, 'base64'): decoding stops at the first "=", characters outside
\* the alphabet are skipped, nothing is ever thrown
BufferFromBase64(data) ==
  LET upto == SubSeq(data, 1, FirstPad(data) - 1)
      kept == SelectSeq(upto, LAMBDA c : c \in B64Chars)
  IN SextetBytes(Sextets(kept))

\* Buffer.toString('utf-8') of bytes: a byte below 0x80 is its own code point, a
\* two-byte sequence (0xC2..0xDF, 0x80..0xBF) is decoded, any other byte that
\* starts no complete sequence becomes U+FFFD
RECURSIVE Utf8Decode(_)
Utf8Decode(b) ==
  IF Len(b) = 0 THEN <<>>
  ELSE IF b[1] < 128 THEN <<b[1]>> \o Utf8Decode(Tail(b))
  ELSE IF b[1] \in 194..223 /\ Len(b) >= 2 /\ b[2] \in 128..191
    THEN <<(b[1] - 192) * 64 + (b[2] - 128)>> \o Utf8Decode(Tail(Tail(b)))
  ELSE <<65533>> \o Utf8Decode(Tail(b))

\* the string whose code units are u
CodeUnits(u) == [k \in 1..Len(u) |-> ToString(u[k])]

\* message of the DOMException atob throws on undecodable input
AtobMessage == "The string to be decoded is not correctly encoded."

\* decodeBase64Certificate: [ok, value] or [ok = FALSE, message of the Error thrown]
decodeBase64Certificate(base64Data) ==
  LET r == atob(base64Data)
  IN IF r.ok THEN [ok |-> TRUE, value |-> CodeUnits(r.value), message |-> ""]
     ELSE [ok |-> FALSE, value |-> <<>>,
           message |-> "Invalid base64 certificate data: " \o AtobMessage]

(***************************************************************************)
(* zod.  A schema is data; parsing reports every path that violates its    *)
(* contract, applies defaults and strips properties the shape does not     *)
(* declare.                                                                *)
(***************************************************************************)
ZString == [k |-> "string"]
ZNumber == [k |-> "number"]
ZBoolean == [k |-> "boolean"]
ZEnum(values) == [k |-> "enum", values |-> values]
ZArray(elem) == [k |-> "array", elem |-> elem]
ZObject(shape) == [k |-> "object", shape |-> shape]
ZOptional(inner) == [k |-> "optional", inner |-> inner]
ZDefault(inner, def) == [k |-> "default", inner |-> inner, def |-> def]

\* the paths of x that violate schema s (a path is a sequence of property names
\* and element positions)
RECURSIVE ZodIssues(_, _, _)
ZodIssues(s, x, path) ==
  CASE s.k \in {"optional", "default"} ->
         IF x.t = "undefined" THEN {} ELSE ZodIssues(s.inner, x, path)
    [] s.k \in {"string", "number", "boolean"} ->
         IF x.t = s.k THEN {} ELSE {path}
    [] s.k = "enum" ->
         IF x.t = "string" /\ Flat(x.v) \in s.values THEN {} ELSE {path}
    [] s.k = "array" ->
         IF x.t # "array" THEN {path}
         ELSE UNION {ZodIssues(s.elem, x.v[n], Append(path, ToString(n))) : n \in 1..Len(x.v)}
    [] s.k = "object" ->
         IF x.t # "object" THEN {path}
         ELSE UNION {ZodIssues(s.shape[f], Get(x, f), Append(path, f)) : f \in DOMAIN s.shape}

\* the parsed value of an x that has no issue
RECURSIVE ZodOutput(_, _)
ZodOutput(s, x) ==
  CASE s.k = "optional" -> IF x.t = "undefined" THEN Undef ELSE ZodOutput(s.inner, x)
    [] s.k = "default" -> IF x.t = "undefined" THEN s.def ELSE ZodOutput(s.inner, x)
    [] s.k = "array" -> Arr([n \in 1..Len(x.v) |-> ZodOutput(s.elem, x.v[n])])
    [] s.k = "object" ->
         LET parsed == [f \in DOMAIN s.shape |-> ZodOutput(s.shape[f], Get(x, f))]
         IN Obj([f \in {g \in DOMAIN s.shape : g \in DOMAIN x.v \/ parsed[g].t # "undefined"}
                   |-> parsed[f]])
    [] OTHER -> x

\* as safeParse, had parsing stopped at the first issue found
safeParseFirstIssue(s, x) ==
  LET issues == ZodIssues(s, x, <<>>)
  IN IF issues = {} THEN [success |-> TRUE, data |-> ZodOutput(s, x), issues |-> {}]
     ELSE [success |-> FALSE, data |-> Undef, issues |-> {CHOOSE p \in issues : TRUE}]

safeParse(s, x) ==
  LET issues == ZodIssues(s, x, <<>>)
  IN IF issues = {} THEN [success |-> TRUE, data |-> ZodOutput(s, x), issues |-> {}]
     ELSE [success |-> FALSE, data |-> Undef, issues |-> issues]

(***************************************************************************)
(* The input schemas of the tools.                                         *)
(***************************************************************************)
CertificateInputSchema ==
  ZObject([name |-> ZString, certificate |-> ZString, private_key |-> ZString])

TrustedCAInputSchema ==
  ZObject([name |-> ZString, certificate |-> ZString])

CreateDomainInputSchema ==
  ZObject([name |-> ZString,
           cnames |-> ZArray(ZString),
           cname_access_only |-> ZDefault(ZBoolean, Bool(TRUE)),
           digital_certificate_id |-> ZOptional(ZNumber),
           edge_application_id |-> ZNumber,
           edge_firewall_id |-> ZOptional(ZNumber),
           is_active |-> ZDefault(ZBoolean, Bool(TRUE))])

\* as PatchDomainInputSchema, with mtls_verification declared a plain string
PatchDomainInputSchemaAnyMode ==
  ZObject([domain_id |-> ZNumber,
           name |-> ZOptional(ZString),
           cnames |-> ZOptional(ZArray(ZString)),
           cname_access_only |-> ZOptional(ZBoolean),
           digital_certificate_id |-> ZOptional(ZNumber),
           edge_application_id |-> ZOptional(ZNumber),
           edge_firewall_id |-> ZOptional(ZNumber),
           is_active |-> ZOptional(ZBoolean),
           is_mtls_enabled |-> ZOptional(ZBoolean),
           mtls_verification |-> ZOptional(ZString),
           mtls_trusted_ca_certificate_id |-> ZOptional(ZNumber),
           crl_list |-> ZOptional(ZArray(ZString))])

PatchDomainInputSchema ==
  ZObject([domain_id |-> ZNumber,
           name |-> ZOptional(ZString),
           cnames |-> ZOptional(ZArray(ZString)),
           cname_access_only |-> ZOptional(ZBoolean),
           digital_certificate_id |-> ZOptional(ZNumber),
           edge_application_id |-> ZOptional(ZNumber),
           edge_firewall_id |-> ZOptional(ZNumber),
           is_active |-> ZOptional(ZBoolean),
           is_mtls_enabled |-> ZOptional(ZBoolean),
           mtls_verification |-> ZOptional(ZEnum({"enforce", "permissive"})),
           mtls_trusted_ca_certificate_id |-> ZOptional(ZNumber),
           crl_list |-> ZOptional(ZArray(ZString))])

LegacyVariables ==
  {"request_uri", "request_method", "request_args", "request_headers", "host",
   "user_agent", "referer", "scheme", "server_protocol", "request_body", "cookie",
   "remote_addr", "network", "server_port", "ssl_cipher", "ssl_protocol",
   "geoip_country_code", "geoip_country_name", "geoip_region", "geoip_region_name",
   "geoip_city", "geoip_continent_code", "geoip_asn",
   "query_string", "file_extension", "raw_body", "args_names", "args_values"}

LegacyOperators ==
  {"is_equal", "is_not_equal", "starts_with", "does_not_start_with", "matches",
   "does_not_match", "contains", "does_not_contain", "is_in_list", "is_not_in_list",
   "exists", "does_not_exist", "between", "is_greater_than", "is_less_than"}

Conditionals == {"if", "and", "or"}

LegacyBehaviorNames ==
  {"deny", "drop", "redirect_to_301", "redirect_to_302", "custom_response", "bypass",
   "rate_limit", "set_waf_ruleset_mode", "set_waf_ruleset_sensitivity",
   "add_request_header", "remove_request_header", "add_response_header",
   "remove_response_header", "set_cache_policy", "set_origin", "run_function"}

CriterionSchemaLegacy ==
  ZObject([variable |-> ZEnum(LegacyVariables),
           operator |-> ZEnum(LegacyOperators),
           conditional |-> ZEnum(Conditionals),
           argument |-> ZString])

BehaviorSchemaLegacy ==
  ZObject([name |-> ZEnum(LegacyBehaviorNames),
           argument |-> ZOptional(ZString)])

Variables ==
  {"header_accept", "header_accept_encoding", "header_accept_language", "header_cookie",
   "header_origin", "header_referer", "header_user_agent",
   "host", "network", "request_args", "request_method", "request_uri", "scheme",
   "client_certificate_validation", "ssl_verification_status"}

Operators ==
  {"is_equal", "is_not_equal", "starts_with", "does_not_start_with", "matches",
   "does_not_match", "exists", "does_not_exist", "is_in_list", "is_not_in_list"}

BehaviorNames ==
  {"deny", "drop", "set_rate_limit", "set_waf_ruleset", "run_function", "tag_event",
   "set_custom_response"}

CriterionSchema ==
  ZObject([variable |-> ZEnum(Variables),
           operator |-> ZEnum(Operators),
           conditional |-> ZEnum(Conditionals),
           argument |-> ZString])

BehaviorArgumentSchema ==
  ZObject([type |-> ZOptional(ZEnum({"second", "minute"})),
           limit_by |-> ZOptional(ZEnum({"client_ip", "global"})),
           average_rate_limit |-> ZOptional(ZString),
           maximum_burst_size |-> ZOptional(ZString),
           waf_id |-> ZOptional(ZNumber),
           mode |-> ZOptional(ZEnum({"Learning", "Blocking"})),
           status_code |-> ZOptional(ZString),
           content_body |-> ZOptional(ZString),
           content_type |-> ZOptional(ZString),
           function_id |-> ZOptional(ZString),
           tag_name |-> ZOptional(ZString),
           tag_value |-> ZOptional(ZString)])

\* as BehaviorSchema, had argument been declared without .optional()
BehaviorSchemaArgumentRequired ==
  ZObject([name |-> ZEnum(BehaviorNames),
           argument |-> BehaviorArgumentSchema])

BehaviorSchema ==
  ZObject([name |-> ZEnum(BehaviorNames),
           argument |-> ZOptional(BehaviorArgumentSchema)])

\* as WafRuleInputSchemaOf, had is_active been declared optional, with no default
WafRuleInputSchemaNoDefault(criterion, behavior) ==
  ZObject([firewall_id |-> ZNumber,
           name |-> ZString,
           is_active |-> ZOptional(ZBoolean),
           behaviors |-> ZArray(behavior),
           criteria |-> ZArray(ZArray(criterion)),
           order |-> ZNumber])

\* as WafRuleInputSchemaOf, had criteria been declared one flat list of criteria
WafRuleInputSchemaFlat(criterion, behavior) ==
  ZObject([firewall_id |-> ZNumber,
           name |-> ZString,
           is_active |-> ZDefault(ZBoolean, Bool(TRUE)),
           behaviors |-> ZArray(behavior),
           criteria |-> ZArray(criterion),
           order |-> ZNumber])

WafRuleInputSchemaOf(criterion, behavior) ==
  ZObject([firewall_id |-> ZNumber,
           name |-> ZString,
           is_active |-> ZDefault(ZBoolean, Bool(TRUE)),
           behaviors |-> ZArray(behavior),
           criteria |-> ZArray(ZArray(criterion)),
           order |-> ZNumber])

WafRuleInputSchemaLegacy == WafRuleInputSchemaOf(CriterionSchemaLegacy, BehaviorSchemaLegacy)
WafRuleInputSchema == WafRuleInputSchemaOf(CriterionSchema, BehaviorSchema)

\* what a synchronous piece of execute yields: a value, or an Error thrown
Value(x) == [ok |-> TRUE, value |-> x, message |-> ""]
Throw(m) == [ok |-> FALSE, value |-> Undef, message |-> m]

(***************************************************************************)
(* The vendor's responses and what the transport can do.                   *)
(***************************************************************************)
BodyInvalid == "{\"detail\":\"invalid\"}"
BodyRule == "{\"results\":{\"id\":42,\"name\":\"x\",\"is_active\":true,\"order\":1}}"
BodyRuleFalsy == "{\"results\":{\"id\":0,\"name\":\"\",\"is_active\":false,\"order\":0}}"
BodyPartial == "{\"results\":{\"id\":7}}"
BodyNoResults == "{}"
BodyNull == "null"
BodyEmpty == ""

BodyTexts == {BodyInvalid, BodyRule, BodyRuleFalsy, BodyPartial, BodyNoResults, BodyNull, BodyEmpty}

\* JSON.parse on the body texts above: the value, or the SyntaxError thrown
JSONParse(text) ==
  CASE text = BodyInvalid -> Value(Obj([detail |-> Text("invalid")]))
    [] text = BodyRule ->
         Value(Obj([results |-> Obj([id |-> Num(42), name |-> Text("x"),
                                     is_active |-> Bool(TRUE), order |-> Num(1)])]))
    [] text = BodyRuleFalsy ->
         Value(Obj([results |-> Obj([id |-> Num(0), name |-> Text(""),
                                     is_active |-> Bool(FALSE), order |-> Num(0)])]))
    [] text = BodyPartial -> Value(Obj([results |-> Obj([id |-> Num(7)])]))
    [] text = BodyNoResults -> Value(EmptyObj)
    [] text = BodyNull -> Value(Null)
    [] OTHER -> Throw("Unexpected end of JSON input")

Response(status, text) == [status |-> status, text |-> text]

Responses ==
  {Response(st, b) : st \in {200, 422}, b \in BodyTexts}
    \cup {Response(299, BodyRule), Response(300, BodyInvalid)}

\* what fetch rejects with on a transport failure, and what reading a body
\* rejects with when the connection breaks
FetchFailed == [isError |-> TRUE, message |-> "fetch failed", value |-> Undef]
BodyTerminated == [isError |-> TRUE, message |-> "terminated", value |-> Undef]
ConnectionLost == [isError |-> TRUE, message |-> "Network connection lost.", value |-> Undef]
TransportFailures == {FetchFailed, ConnectionLost}

\* error instanceof Error ? error.message : String(error)
ErrorText(error) == IF error.isError THEN error.message ELSE TemplateText(error.value)

(***************************************************************************)
(* The tools.  Tools of the same name in different source files are told   *)
(* apart by a suffix.                                                      *)
(***************************************************************************)
CreateCertificate == "createDigitalCertificateTool"
UploadCertificate == "uploadDigitalCertificateTool"
UploadCertificateB64 == "uploadDigitalCertificateTool/base64"
TrustedCA == "createTrustedCACertificateTool"
TrustedCAB64 == "createTrustedCACertificateTool/base64"
CreateDomain == "createDomainTool"
PatchDomain == "patchDomainTool"
CreateWafRuleLegacy == "createWafRuleTool/legacy"
CreateWafRule == "createWafRuleTool"

Tools ==
  {CreateCertificate, UploadCertificate, UploadCertificateB64, TrustedCA, TrustedCAB64,
   CreateDomain, PatchDomain, CreateWafRuleLegacy, CreateWafRule}

InputSchema(tool) ==
  CASE tool \in {CreateCertificate, UploadCertificate, UploadCertificateB64} ->
         CertificateInputSchema
    [] tool \in {TrustedCA, TrustedCAB64} -> TrustedCAInputSchema
    [] tool = CreateDomain -> CreateDomainInputSchema
    [] tool = PatchDomain -> PatchDomainInputSchema
    [] tool = CreateWafRuleLegacy -> WafRuleInputSchemaLegacy
    [] tool = CreateWafRule -> WafRuleInputSchema

ApiBase == "https://api.azionapi.net"

\* env.DECO_CHAT_REQUEST_CONTEXT.state.azion_token
\* as ReadToken, had a missing token been refused
ReadTokenChecked(env) ==
  LET state == PropRead(Get(env, "DECO_CHAT_REQUEST_CONTEXT"), "state")
      token == IF state.ok THEN PropRead(state.value, "azion_token") ELSE state
  IN IF ~token.ok THEN Throw(token.message)
     ELSE IF token.value = Undef THEN Throw("Missing token")
     ELSE token

ReadToken(env) ==
  LET state == PropRead(Get(env, "DECO_CHAT_REQUEST_CONTEXT"), "state")
  IN IF ~state.ok THEN Throw(state.message) ELSE PropRead(state.value, "azion_token")

\* as RequestHeaders, had the token been sent under the Bearer scheme
RequestHeadersBearer(token) ==
  [Accept |-> "application/json; version=3",
   ContentType |-> "application/json",
   Authorization |-> "Bearer " \o TemplateText(token)]

RequestHeaders(token) ==
  [Accept |-> "application/json; version=3",
   ContentType |-> "application/json",
   Authorization |-> "Token " \o TemplateText(token)]

\* the arguments of the call fetch(url, {method, headers, body}), evaluated in order
FetchArguments(method, url, env, body) ==
  LET token == ReadToken(env)
  IN IF ~token.ok THEN Throw(token.message)
     ELSE Value([method |-> method, url |-> url,
                 headers |-> RequestHeaders(token.value),
                 body |-> JSONStringify(body)])

\* requestBody of createDomainTool.execute
CreateDomainRequestBody(context) ==
  LET required == [name |-> Get(context, "name"),
                   cnames |-> Get(context, "cnames"),
                   cname_access_only |-> Get(context, "cname_access_only"),
                   edge_application_id |-> Get(context, "edge_application_id"),
                   is_active |-> Get(context, "is_active")]
      optional == {f \in {"digital_certificate_id", "edge_firewall_id"} :
                     Get(context, f) # Undef}
  IN Obj([f \in DOMAIN required \cup optional |->
            IF f \in optional THEN Get(context, f) ELSE required[f]])

PatchDomainBodyFields ==
  <<"name", "cnames", "cname_access_only", "digital_certificate_id",
    "edge_application_id", "edge_firewall_id", "is_active", "is_mtls_enabled",
    "mtls_verification", "mtls_trusted_ca_certificate_id", "crl_list">>

\* as PatchDomainProvided, had the test been  if (context.f)
PatchDomainProvidedTruthy(context, f) ==
  LET x == Get(context, f)
  IN /\ x.t \notin {"undefined", "null"}
     /\ x # Bool(FALSE)
     /\ x # Num(0)
     /\ ~(x.t = "string" /\ Flat(x.v) = "")

\* the test of each  if (context.f !== undefined)  of patchDomainTool.execute
PatchDomainProvided(context, f) == Get(context, f) # Undef

\* as PatchDomainRequestBody, had the body repeated the identifier of the path
PatchDomainRequestBodyWithId(context) ==
  LET provided == {PatchDomainBodyFields[k] : k \in
                     {n \in 1..Len(PatchDomainBodyFields) :
                        PatchDomainProvided(context, PatchDomainBodyFields[n])}}
  IN Obj([f \in provided \cup {"domain_id"} |-> Get(context, f)])

\* requestBody of patchDomainTool.execute
PatchDomainRequestBody(context) ==
  LET provided == {PatchDomainBodyFields[k] : k \in
                     {n \in 1..Len(PatchDomainBodyFields) :
                        PatchDomainProvided(context, PatchDomainBodyFields[n])}}
  IN Obj([f \in provided |-> Get(context, f)])

\* as WafRuleRequestBody, had the empty criterion groups been left out
WafRuleRequestBodyNoEmptyGroup(context) ==
  Obj([name |-> Get(context, "name"),
       is_active |-> Get(context, "is_active"),
       behaviors |-> Get(context, "behaviors"),
       criteria |-> Arr(SelectSeq(Get(context, "criteria").v, LAMBDA g : Len(g.v) > 0)),
       order |-> Get(context, "order")])

\* the body literal of createWafRuleTool.execute (both variants)
WafRuleRequestBody(context) ==
  Obj([name |-> Get(context, "name"),
       is_active |-> Get(context, "is_active"),
       behaviors |-> Get(context, "behaviors"),
       criteria |-> Get(context, "criteria"),
       order |-> Get(context, "order")])

\* the decoding a certificate tool applies to a base64 input field
DecodeField(tool, field) ==
  CASE tool = CreateCertificate ->
         IF field.t = "string"
           THEN Value(Str(CodeUnits(Utf8Decode(BufferFromBase64(field.v)))))
         ELSE Throw("The first argument must be of type string")
    [] tool \in {UploadCertificateB64, TrustedCAB64} ->
         LET d == decodeBase64Certificate(field.v)
         IN IF d.ok THEN Value(Str(d.value)) ELSE Throw(d.message)
    [] OTHER -> Value(field)

\* the body literal of the certificate tools
CertificateRequestBody(tool, context, certificate, private_key) ==
  IF tool \in {TrustedCA, TrustedCAB64}
    THEN Obj([name |-> Get(context, "name"),
              certificate |-> certificate,
              certificate_type |-> Text("trusted_ca_certificate")])
  ELSE Obj([name |-> Get(context, "name"),
            certificate |-> certificate,
            private_key |-> private_key])

\* as Method, had the domain patch been sent as a POST like the other operations
MethodPost(tool) == "POST"

Method(tool) == IF tool = PatchDomain THEN "PATCH" ELSE "POST"

Url(tool, context) ==
  CASE tool \in {CreateCertificate, UploadCertificate, UploadCertificateB64,
                 TrustedCA, TrustedCAB64} -> ApiBase \o "/digital_certificates"
    [] tool = CreateDomain -> ApiBase \o "/domains"
    [] tool = PatchDomain ->
         ApiBase \o "/domains/" \o TemplateText(Get(context, "domain_id"))
    [] tool \in {CreateWafRuleLegacy, CreateWafRule} ->
         ApiBase \o "/edge_firewall/" \o TemplateText(Get(context, "firewall_id"))
                 \o "/rules_engine"

RequestBody(tool, context, certificate, private_key) ==
  CASE tool = CreateDomain -> CreateDomainRequestBody(context)
    [] tool = PatchDomain -> PatchDomainRequestBody(context)
    [] tool \in {CreateWafRuleLegacy, CreateWafRule} -> WafRuleRequestBody(context)
    [] OTHER -> CertificateRequestBody(tool, context, certificate, private_key)

\* as OutsideTry, had every tool decoded its input before entering the try block
OutsideTryDecodeFirst(tool) == {"certificate", "private_key"}

\* the statements of execute that lie outside its try block
OutsideTry(tool) == IF tool = CreateCertificate THEN {"certificate", "private_key"} ELSE {}

\* as CatchResult, had the catch block reported no more than the kind of failure
CatchResultNoMessage(message) ==
  Obj([success |-> Bool(FALSE), error |-> Text("Network error")])

\* the catch block of execute
CatchResult(message) ==
  Obj([success |-> Bool(FALSE), error |-> Str(<<"Network error: ", message>>)])

\* as HttpErrorResult, had the error body been parsed and its detail reported
HttpErrorResultParsed(status, errorText) ==
  LET parsed == JSONParse(errorText)
      detail == IF parsed.ok /\ parsed.value.t = "object" THEN Get(parsed.value, "detail")
                ELSE Undef
  IN Obj([success |-> Bool(FALSE),
          error |-> Str(<<"HTTP ", ToString(status), ": ",
                          IF detail.t = "string" THEN Flat(detail.v) ELSE errorText>>)])

\* as HttpErrorResult, had the failure carried the status as a property of its own
HttpErrorResultWithStatus(status, errorText) ==
  Obj([success |-> Bool(FALSE),
       error |-> Str(<<"HTTP ", ToString(status), ": ", errorText>>),
       status |-> Num(status)])

\* the branch  if (!response.ok)  of execute, once response.text() has resolved
HttpErrorResult(status, errorText) ==
  Obj([success |-> Bool(FALSE),
       error |-> Str(<<"HTTP ", ToString(status), ": ", errorText>>)])

ResponseOk(status) == status \in 200..299

\* as MapResult, had the output echoed the input where the two share a name
MapResultEchoInput(tool, context, results) ==
  Obj([success |-> Bool(TRUE),
       rule_id |-> OptGet(results, "id"),
       name |-> Get(context, "name"),
       is_active |-> Get(context, "is_active"),
       order |-> Get(context, "order")])

\* the object literal returned on success, given result.results
MapResult(tool, context, results) ==
     CASE tool \in {CreateCertificate, UploadCertificate, UploadCertificateB64} ->
            Obj([success |-> Bool(TRUE),
                 certificate_id |-> OptGet(results, "id"),
                 name |-> OptGet(results, "name"),
                 validity |-> OptGet(results, "validity"),
                 status |-> OptGet(results, "status")])
       [] tool \in {TrustedCA, TrustedCAB64} ->
            Obj([success |-> Bool(TRUE),
                 certificate_id |-> OptGet(results, "id"),
                 name |-> OptGet(results, "name"),
                 validity |-> OptGet(results, "validity"),
                 status |-> OptGet(results, "status"),
                 certificate_type |-> OptGet(results, "certificate_type")])
       [] tool = CreateDomain ->
            Obj([success |-> Bool(TRUE),
                 domain_id |-> OptGet(results, "id"),
                 name |-> OptGet(results, "name"),
                 domain_name |-> OptGet(results, "domain_name"),
                 cnames |-> OptGet(results, "cnames"),
                 is_active |-> OptGet(results, "is_active")])
       [] tool = PatchDomain ->
            Obj([success |-> Bool(TRUE),
                 domain_id |-> OptGet(results, "id"),
                 name |-> OptGet(results, "name"),
                 domain_name |-> OptGet(results, "domain_name"),
                 cnames |-> OptGet(results, "cnames"),
                 cname_access_only |-> OptGet(results, "cname_access_only"),
                 digital_certificate_id |-> OptGet(results, "digital_certificate_id"),
                 edge_application_id |-> OptGet(results, "edge_application_id"),
                 edge_firewall_id |-> OptGet(results, "edge_firewall_id"),
                 is_active |-> OptGet(results, "is_active"),
                 environment |-> OptGet(results, "environment"),
                 is_mtls_enabled |-> OptGet(results, "is_mtls_enabled"),
                 mtls_verification |-> OptGet(results, "mtls_verification"),
                 mtls_trusted_ca_certificate_id |->
                   OptGet(results, "mtls_trusted_ca_certificate_id"),
                 crl_list |-> OptGet(results, "crl_list")])
       [] tool \in {CreateWafRuleLegacy, CreateWafRule} ->
            Obj([success |-> Bool(TRUE),
                 rule_id |-> OptGet(results, "id"),
                 name |-> OptGet(results, "name"),
                 is_active |-> OptGet(results, "is_active"),
                 order |-> OptGet(results, "order")])

(***************************************************************************)
(* The environments a tool is built with.                                  *)
(***************************************************************************)
EnvWithToken(token) ==
  Obj([DECO_CHAT_REQUEST_CONTEXT |-> Obj([state |-> Obj([azion_token |-> Text(token)])])])
EnvA == EnvWithToken("tokA")
EnvB == EnvWithToken("tokB")
EnvNoToken == Obj([DECO_CHAT_REQUEST_CONTEXT |-> Obj([state |-> EmptyObj])])
EnvNoState == Obj([DECO_CHAT_REQUEST_CONTEXT |-> EmptyObj])
EnvNoContext == EmptyObj

Envs == {EnvA, EnvB, EnvNoToken, EnvNoState, EnvNoContext}

(***************************************************************************)
(* The inputs the host calls the tools with.                               *)
(***************************************************************************)
Without(o, f) == Obj([g \in DOMAIN o.v \ {f} |-> o.v[g]])
With(o, f, x) == Obj([g \in DOMAIN o.v \cup {f} |-> IF g = f THEN x ELSE o.v[g]])
\* o with one of its properties left out, for each property
OneMissing(o) == {Without(o, f) : f \in DOMAIN o.v}
\* o with the properties in present kept
Only(o, present) == Obj([g \in DOMAIN o.v \cap present |-> o.v[g]])

SeqsUpTo(S, n) == UNION {[1..m -> S] : m \in 0..n}

B64InputChars == {"Q", "=", "!"}
B64Texts ==
  SeqsUpTo(B64InputChars, MaxB64Len)
    \cup {<<"/", "w", "=", "=">>, <<"w", "6", "k", "=">>, <<"Q", "Q", "\n", "=", "=">>}
GoodB64 == <<"Q", "Q", "=", "=">>
BadB64 == <<"!">>

CertificateInput(c, k) ==
  Obj([name |-> Text("n"), certificate |-> Str(c), private_key |-> Str(k)])
TrustedCAInput(c) == Obj([name |-> Text("n"), certificate |-> Str(c)])

CertificateInputs ==
  {CertificateInput(c, k) : c \in B64Texts, k \in {GoodB64, BadB64}}
    \cup OneMissing(CertificateInput(GoodB64, GoodB64))
PlainCertificateInputs ==
  {CertificateInput(c, k) : c \in {GoodB64, BadB64}, k \in {GoodB64, BadB64}}
    \cup OneMissing(CertificateInput(GoodB64, GoodB64))
TrustedCAInputs == {TrustedCAInput(c) : c \in B64Texts} \cup OneMissing(TrustedCAInput(GoodB64))
PlainTrustedCAInputs ==
  {TrustedCAInput(c) : c \in {GoodB64, BadB64}} \cup OneMissing(TrustedCAInput(GoodB64))

CnameLists == {Arr(l) : l \in SeqsUpTo({Text("a.com"), Text("b.com")}, MaxList)}

CreateDomainFull ==
  Obj([name |-> Text("n"), cnames |-> Arr(<<Text("a.com")>>),
       cname_access_only |-> Bool(FALSE), digital_certificate_id |-> Num(0),
       edge_application_id |-> Num(7), edge_firewall_id |-> Num(3),
       is_active |-> Bool(FALSE)])
CreateDomainRequired == {"name", "cnames", "edge_application_id"}

CreateDomainInputs ==
  {Only(CreateDomainFull, CreateDomainRequired \cup p) :
     p \in SUBSET (DOMAIN CreateDomainFull.v \ CreateDomainRequired)}
    \cup {With(CreateDomainFull, "cnames", l) : l \in CnameLists}
    \cup {With(CreateDomainFull, "is_active", Bool(TRUE))}
    \cup OneMissing(CreateDomainFull)

PatchDomainFull ==
  Obj([domain_id |-> Num(1), name |-> Text("n"), cnames |-> Arr(<<>>),
       cname_access_only |-> Bool(FALSE), digital_certificate_id |-> Num(0),
       edge_application_id |-> Num(7), edge_firewall_id |-> Num(3),
       is_active |-> Bool(TRUE), is_mtls_enabled |-> Bool(FALSE),
       mtls_verification |-> Text("enforce"),
       mtls_trusted_ca_certificate_id |-> Num(9),
       crl_list |-> Arr(<<Text("crl")>>)])
PatchDomainOptional == DOMAIN PatchDomainFull.v \ {"domain_id"}

\* an input that violates the contract of four fields at once
PatchDomainManyViolations ==
  Obj([name |-> Num(3), mtls_verification |-> Text("strict"), crl_list |-> Null,
       is_active |-> Bool(TRUE)])

PatchDomainInputs ==
  {Only(PatchDomainFull, {"domain_id"} \cup p) :
     p \in {q \in SUBSET PatchDomainOptional : Cardinality(q) <= MaxPresent}}
    \cup {PatchDomainFull, Without(PatchDomainFull, "domain_id"), EmptyObj}
    \cup {With(base, f, Null) :
            base \in {PatchDomainFull, Only(PatchDomainFull, {"domain_id"})},
            f \in {"mtls_trusted_ca_certificate_id", "crl_list"}}
    \cup {With(PatchDomainFull, "mtls_verification", Text(m)) : m \in {"permissive", "strict"}}
    \cup {With(Only(PatchDomainFull, {"domain_id"}), "cnames", l) : l \in CnameLists}
    \cup {PatchDomainManyViolations,
          With(With(PatchDomainFull, "is_active", Text("yes")), "cnames",
               Arr(<<Num(1), Text("a.com"), Num(2)>>))}

Criterion(variable, operator, conditional) ==
  Obj([variable |-> Text(variable), operator |-> Text(operator),
       conditional |-> Text(conditional), argument |-> Text("/a,/b")])
CritIf == Criterion("request_uri", "is_in_list", "if")
CritAnd == Criterion("host", "is_equal", "and")
CritOr == Criterion("network", "matches", "or")
CritContains == Criterion("request_uri", "contains", "if")
CritHeader == Criterion("header_accept", "is_equal", "if")
CritExistsNoArgument == Without(Criterion("host", "exists", "if"), "argument")
CritNumberArgument == With(Criterion("host", "is_equal", "if"), "argument", Num(1))
CritBadVariable == Criterion("request_url", "is_equal", "if")
CritBadOperator == Criterion("host", "is_like", "if")
CritBadConditional == Criterion("host", "is_equal", "else")
\* a criterion with a property the schema does not declare
CritUndeclared == With(CritIf, "comment", Text("c"))

GroupPool ==
  {<<>>, <<CritIf>>, <<CritIf, CritAnd>>, <<CritAnd, CritIf>>, <<CritIf, CritOr>>,
   <<CritContains>>, <<CritHeader>>, <<CritExistsNoArgument>>, <<CritNumberArgument>>,
   <<CritBadVariable>>,
   <<CritIf, CritBadOperator>>, <<CritBadConditional>>, <<CritUndeclared>>}
CriteriaLists == {Arr([k \in DOMAIN l |-> Arr(l[k])]) : l \in SeqsUpTo(GroupPool, MaxList)}

BehDeny == Obj([name |-> Text("deny")])
BehDrop == Obj([name |-> Text("drop")])
BehRedirectNoArgument == Obj([name |-> Text("redirect_to_301")])
BehCustomResponse == Obj([name |-> Text("custom_response"), argument |-> Text("403|no|text/plain")])
BehRateLimit ==
  Obj([name |-> Text("set_rate_limit"),
       argument |-> Obj([type |-> Text("second"), limit_by |-> Text("client_ip"),
                         average_rate_limit |-> Text("10")])])
BehRunFunctionNoArgument == Obj([name |-> Text("run_function")])
BehBadName == Obj([name |-> Text("explode")])
BehBadArgumentType ==
  Obj([name |-> Text("set_rate_limit"), argument |-> Obj([type |-> Text("hour")])])
BehNoName == EmptyObj
\* a behavior with a property the schema does not declare
BehUndeclared == With(BehDeny, "comment", Text("c"))

BehaviorPool ==
  {BehDeny, BehDrop, BehRedirectNoArgument, BehCustomResponse, BehRateLimit,
   BehRunFunctionNoArgument, BehBadName, BehBadArgumentType, BehNoName, BehUndeclared}
BehaviorLists == {Arr(l) : l \in SeqsUpTo(BehaviorPool, MaxList)}

WafRuleFull ==
  Obj([firewall_id |-> Num(5), name |-> Text("n"), is_active |-> Bool(FALSE),
       behaviors |-> Arr(<<BehDeny>>), criteria |-> Arr(<<Arr(<<CritIf>>)>>),
       order |-> Num(0)])

WafRuleInputs ==
  {With(WafRuleFull, "criteria", c) : c \in CriteriaLists}
    \cup {With(WafRuleFull, "behaviors", b) : b \in BehaviorLists}
    \cup {With(With(WafRuleFull, "criteria", Arr(<<>>)), "behaviors", Arr(<<>>))}
    \cup OneMissing(WafRuleFull)

Inputs(tool) ==
  CASE tool \in {CreateCertificate, UploadCertificateB64} -> CertificateInputs
    [] tool = UploadCertificate -> PlainCertificateInputs
    [] tool = TrustedCAB64 -> TrustedCAInputs
    [] tool = TrustedCA -> PlainTrustedCAInputs
    [] tool = CreateDomain -> CreateDomainInputs
    [] tool = PatchDomain -> PatchDomainInputs
    [] tool \in {CreateWafRuleLegacy, CreateWafRule} -> WafRuleInputs

\* a valid input of each tool, used where only the environment varies
BaseInput(tool) ==
  CASE tool \in {CreateCertificate, UploadCertificate, UploadCertificateB64} ->
         CertificateInput(GoodB64, GoodB64)
    [] tool \in {TrustedCA, TrustedCAB64} -> TrustedCAInput(GoodB64)
    [] tool = CreateDomain -> CreateDomainFull
    [] tool = PatchDomain -> PatchDomainFull
    [] tool \in {CreateWafRuleLegacy, CreateWafRule} -> WafRuleFull

Call(tool, raw, env) == [tool |-> tool, raw |-> raw, env |-> env]

\* base64 encoding of a sequence of bytes, as the caller of a tool does it
Base64Encode(b) ==
  LET n == Len(b)
      byte(j) == IF j <= n THEN b[j] ELSE 0
      sextet(k) ==
        LET off == (k - 1) * 6
            j == (off \div 8) + 1
            r == off % 8
        IN CASE r = 0 -> byte(j) \div 4
             [] r = 6 -> (byte(j) % 4) * 16 + (byte(j + 1) \div 16)
             [] r = 4 -> (byte(j) % 16) * 4 + (byte(j + 1) \div 64)
             [] r = 2 -> byte(j) % 64
      used == (n * 8 + 5) \div 6
  IN [k \in 1..(4 * ((n + 2) \div 3)) |->
        IF k <= used THEN B64Alphabet[sextet(k) + 1] ELSE "="]

\* the contents a caller encodes: ASCII text of every length modulo 3, a byte
\* that is no UTF-8, and the UTF-8 bytes of a character above U+007F
EncodedContents ==
  {<<>>, <<65>>, <<45, 10>>, <<65, 66, 67>>, <<77, 73, 73, 10>>, <<255>>, <<195, 169>>}

\* calls of the tools that decode base64, with encoded contents
EncodedCalls ==
  {Call(tool, CertificateInput(Base64Encode(c), Base64Encode(c)), EnvA) :
     tool \in {CreateCertificate, UploadCertificateB64}, c \in EncodedContents}
    \cup {Call(TrustedCAB64, TrustedCAInput(Base64Encode(c)), EnvA) : c \in EncodedContents}

\* calls that pass a token property in the input, as the tools' documentation
\* describes, to the tools it documents
TokenParameterTools == {CreateCertificate, CreateDomain, TrustedCA}
TokenParameterCalls ==
  {Call(tool, With(BaseInput(tool), "token", Text("tokIn")), env) :
     tool \in TokenParameterTools, env \in {EnvA, EnvNoToken}}

\* the calls of the sequential specification: every input with a usable
\* environment, and a valid input with every environment
Calls ==
  {Call(tool, raw, EnvA) : <<tool, raw>> \in UNION {{<<t, r>> : r \in Inputs(t)} : t \in Tools}}
    \cup {Call(tool, BaseInput(tool), env) : tool \in Tools, env \in Envs}
    \cup TokenParameterCalls
    \cup EncodedCalls

\* the calls of the concurrent specification
ConcurrentCalls ==
  {Call(PatchDomain, Only(PatchDomainFull, {"domain_id", "name"}), EnvA),
   Call(PatchDomain, With(Only(PatchDomainFull, {"domain_id", "is_active"}), "domain_id", Num(2)),
        EnvB),
   Call(UploadCertificateB64, CertificateInput(GoodB64, GoodB64), EnvB),
   Call(UploadCertificateB64, CertificateInput(BadB64, GoodB64), EnvA),
   Call(CreateWafRule, WafRuleFull, EnvA),
   Call(CreateDomain, Without(CreateDomainFull, "name"), EnvB),
   Call(TrustedCA, TrustedCAInput(GoodB64), EnvNoState)}

ConcurrentResponses ==
  {Response(200, BodyRule), Response(200, BodyNull), Response(422, BodyInvalid)}

(***************************************************************************)
(* One invocation.                                                         *)
(***************************************************************************)
NoOutcome == [kind |-> "none", value |-> Undef, issues |-> {}]
\* execute returned x
Returned(x) == [kind |-> "return", value |-> x, issues |-> {}]
\* execute threw outside its try block
Thrown(message) == [kind |-> "thrown", value |-> Text(message), issues |-> {}]
\* the input did not pass the tool's inputSchema: execute is not run
Rejected(issues) == [kind |-> "rejected", value |-> Undef, issues |-> issues]

NoRequest == [method |-> "", url |-> "", headers |-> RequestHeaders(Undef), body |-> Undef]

CertificateTools ==
  {CreateCertificate, UploadCertificate, UploadCertificateB64, TrustedCA, TrustedCAB64}
PrivateKeyTools == {CreateCertificate, UploadCertificate, UploadCertificateB64}

\* execute from its first statement to the call of fetch: either the request
\* handed to fetch, or the outcome execute ends with before any request
ExecuteToFetch(tool, context, env) ==
  LET certificate ==
        IF tool \in CertificateTools THEN DecodeField(tool, Get(context, "certificate"))
        ELSE Value(Undef)
      private_key ==
        IF tool \in PrivateKeyTools /\ certificate.ok
          THEN DecodeField(tool, Get(context, "private_key"))
        ELSE Value(Undef)
      failed ==
        IF ~certificate.ok THEN "certificate"
        ELSE IF ~private_key.ok THEN "private_key" ELSE ""
      message == IF ~certificate.ok THEN certificate.message ELSE private_key.message
      arguments ==
        FetchArguments(Method(tool), Url(tool, context), env,
                       RequestBody(tool, context, certificate.value, private_key.value))
  IN IF failed # ""
       THEN [fetch |-> FALSE, request |-> NoRequest,
             outcome |-> IF failed \in OutsideTry(tool) THEN Thrown(message)
                         ELSE Returned(CatchResult(message))]
     ELSE IF ~arguments.ok
       THEN [fetch |-> FALSE, request |-> NoRequest,
             outcome |-> Returned(CatchResult(arguments.message))]
     ELSE [fetch |-> TRUE, request |-> arguments.value, outcome |-> NoOutcome]

\* execute after  await response.json()  has resolved with the text's value
OnJson(tool, context, text) ==
  LET result == JSONParse(text)
      results == IF result.ok THEN PropRead(result.value, "results") ELSE result
  IN IF ~result.ok THEN CatchResult(result.message)
     ELSE IF ~results.ok THEN CatchResult(results.message)
     ELSE MapResult(tool, context, results.value)

\* execute after the body of the response has been read in full
OnBody(tool, context, status, text) ==
  IF ~ResponseOk(status) THEN HttpErrorResult(status, text)
  ELSE OnJson(tool, context, text)

Slots == {1, 2}

NoCall == Call("", Undef, Undef)
NoResponse == [settled |-> "none", status |-> 0, text |-> "", read |-> "none", failure |-> ""]

VARIABLES
  pc,        \* where each invocation stands
  call,      \* the tool called, the raw input and the environment of the tool
  context,   \* the parsed input handed to execute
  requests,  \* the requests the invocation has handed to fetch, in order
  response,  \* how fetch settled and how far the body has been read
  out,       \* what the host gets back
  cancelled, \* whether the caller has given the invocation up while fetch was pending
  served     \* how many earlier invocations have ended, counted up to MaxServed

vars == <<pc, call, context, requests, response, out, cancelled, served>>

Init ==
  /\ pc = [i \in Slots |-> "idle"]
  /\ call = [i \in Slots |-> NoCall]
  /\ context = [i \in Slots |-> Undef]
  /\ requests = [i \in Slots |-> <<>>]
  /\ response = [i \in Slots |-> NoResponse]
  /\ out = [i \in Slots |-> NoOutcome]
  /\ cancelled = [i \in Slots |-> FALSE]
  /\ served = [i \in Slots |-> 0]

\* the host calls a tool: the input is parsed against the tool's inputSchema
Invoke(i, calls) ==
  /\ pc[i] = "idle"
  /\ \E c \in calls :
       LET parsed == safeParse(InputSchema(c.tool), c.raw)
       IN /\ call' = [call EXCEPT ![i] = c]
          /\ IF parsed.success
               THEN /\ pc' = [pc EXCEPT ![i] = "validated"]
                    /\ context' = [context EXCEPT ![i] = parsed.data]
                    /\ out' = out
             ELSE /\ pc' = [pc EXCEPT ![i] = "done"]
                  /\ context' = context
                  /\ out' = [out EXCEPT ![i] = Rejected(parsed.issues)]
  /\ UNCHANGED <<served, cancelled, requests, response>>

\* as Execute, had the tools shared one env whose request context is that of the
\* latest call
ExecuteSharedEnv(i) ==
  /\ pc[i] = "validated"
  /\ LET other == CHOOSE j \in Slots : j # i
         env == IF call[other] # NoCall THEN call[other].env ELSE call[i].env
         step == ExecuteToFetch(call[i].tool, context[i], env)
     IN IF step.fetch
          THEN /\ requests' = [requests EXCEPT ![i] = Append(@, step.request)]
               /\ pc' = [pc EXCEPT ![i] = "fetching"]
               /\ out' = out
        ELSE /\ requests' = requests
             /\ pc' = [pc EXCEPT ![i] = "done"]
             /\ out' = [out EXCEPT ![i] = step.outcome]
  /\ UNCHANGED <<served, cancelled, call, context, response>>

\* execute runs up to its first await
Execute(i) ==
  /\ pc[i] = "validated"
  /\ LET step == ExecuteToFetch(call[i].tool, context[i], call[i].env)
     IN IF step.fetch
          THEN /\ requests' = [requests EXCEPT ![i] = Append(@, step.request)]
               /\ pc' = [pc EXCEPT ![i] = "fetching"]
               /\ out' = out
        ELSE /\ requests' = requests
             /\ pc' = [pc EXCEPT ![i] = "done"]
             /\ out' = [out EXCEPT ![i] = step.outcome]
  /\ UNCHANGED <<served, cancelled, call, context, response>>

\* as FetchReject, had the catch block issued the request once more
FetchRejectRetry(i) ==
  /\ pc[i] = "fetching"
  /\ requests' = [requests EXCEPT ![i] = Append(@, @[1])]
  /\ response' = [response EXCEPT ![i].settled = "rejected"]
  /\ UNCHANGED <<served, cancelled, pc, call, context, out>>

\* fetch rejects: the catch block returns
FetchReject(i) ==
  /\ pc[i] = "fetching"
  /\ pc' = [pc EXCEPT ![i] = "done"]
  /\ \E error \in TransportFailures :
       /\ response' = [response EXCEPT ![i].settled = "rejected",
                                        ![i].failure = error.message]
       /\ out' = [out EXCEPT ![i] = Returned(CatchResult(ErrorText(error)))]
  /\ UNCHANGED <<served, cancelled, call, context, requests>>

\* the caller gives the invocation up while fetch is pending: execute takes no
\* signal and hands none to fetch, so no statement of the tool runs and the
\* pending call goes on
Cancel(i) ==
  /\ pc[i] = "fetching"
  /\ ~cancelled[i]
  /\ cancelled' = [cancelled EXCEPT ![i] = TRUE]
  /\ UNCHANGED <<served, pc, call, context, requests, response, out>>

\* fetch resolves with the status line and headers of a response
FetchResolve(i, responses) ==
  /\ pc[i] = "fetching"
  /\ \E r \in responses :
       response' = [response EXCEPT ![i] =
                      [settled |-> "resolved", status |-> r.status, text |-> r.text,
                       read |-> "none", failure |-> ""]]
  /\ pc' = [pc EXCEPT ![i] = "reading"]
  /\ UNCHANGED <<served, cancelled, call, context, requests, out>>

\* response.text() or response.json() has the whole body: execute returns
BodyResolve(i) ==
  /\ pc[i] = "reading"
  /\ pc' = [pc EXCEPT ![i] = "done"]
  /\ response' = [response EXCEPT ![i].read = "ok"]
  /\ out' = [out EXCEPT ![i] =
               Returned(OnBody(call[i].tool, context[i], response[i].status, response[i].text))]
  /\ UNCHANGED <<served, cancelled, call, context, requests>>

\* as BodyReject, had the catch block gone back to wait for fetch once more
BodyRejectRefetch(i) ==
  /\ pc[i] = "reading"
  /\ pc' = [pc EXCEPT ![i] = "fetching"]
  /\ response' = [response EXCEPT ![i] = NoResponse]
  /\ UNCHANGED <<served, cancelled, call, context, requests, out>>

\* reading the body fails: response.text() or response.json() rejects
BodyReject(i) ==
  /\ pc[i] = "reading"
  /\ pc' = [pc EXCEPT ![i] = "done"]
  /\ response' = [response EXCEPT ![i].read = "failed"]
  /\ out' = [out EXCEPT ![i] = Returned(CatchResult(ErrorText(BodyTerminated)))]
  /\ UNCHANGED <<served, cancelled, call, context, requests>>

\* as Return, had the request been kept in a place that outlives the call of
\* execute
ReturnKeepingRequests(i) ==
  /\ pc[i] = "done"
  /\ pc' = [pc EXCEPT ![i] = "idle"]
  /\ call' = [call EXCEPT ![i] = NoCall]
  /\ context' = [context EXCEPT ![i] = Undef]
  /\ requests' = requests
  /\ response' = [response EXCEPT ![i] = NoResponse]
  /\ out' = [out EXCEPT ![i] = NoOutcome]
  /\ cancelled' = [cancelled EXCEPT ![i] = FALSE]
  /\ served' = [served EXCEPT ![i] = IF @ < MaxServed THEN @ + 1 ELSE @]

\* the host has the outcome; nothing of the invocation is kept
Return(i) ==
  /\ pc[i] = "done"
  /\ pc' = [pc EXCEPT ![i] = "idle"]
  /\ call' = [call EXCEPT ![i] = NoCall]
  /\ context' = [context EXCEPT ![i] = Undef]
  /\ requests' = [requests EXCEPT ![i] = <<>>]
  /\ response' = [response EXCEPT ![i] = NoResponse]
  /\ out' = [out EXCEPT ![i] = NoOutcome]
  /\ cancelled' = [cancelled EXCEPT ![i] = FALSE]
  /\ served' = [served EXCEPT ![i] = IF @ < MaxServed THEN @ + 1 ELSE @]

\* one invocation at a time
Next ==
  \/ Invoke(1, Calls)
  \/ Execute(1)
  \/ FetchReject(1)
  \/ Cancel(1)
  \/ FetchResolve(1, Responses)
  \/ BodyResolve(1)
  \/ BodyReject(1)
  \/ Return(1)

Spec == Init /\ [][Next]_vars

\* two invocations, their steps interleaved in every order
NextConcurrent ==
  \E i \in Slots :
    \/ Invoke(i, ConcurrentCalls)
    \/ Execute(i)
    \/ FetchReject(i)
    \/ Cancel(i)
    \/ FetchResolve(i, ConcurrentResponses)
    \/ BodyResolve(i)
    \/ BodyReject(i)
    \/ Return(i)

SpecConcurrent == Init /\ [][NextConcurrent]_vars

(***************************************************************************)
(* Properties.                                                             *)
(***************************************************************************)
Success(o) == Get(o.value, "success")
ErrorOf(o) == Get(o.value, "error")
\* a string put together by a template literal that begins with prefix
StartsWith(x, prefix) == x.t = "string" /\ Len(x.v) > 0 /\ x.v[1] = prefix
Finished(i) == pc[i] = "done"

\* the {success: false, error: <description>} shape
IsFailureResult(o) ==
  /\ o.kind = "return"
  /\ o.value.t = "object"
  /\ DOMAIN o.value.v = {"success", "error"}
  /\ Success(o) = Bool(FALSE)
  /\ ErrorOf(o).t = "string"

IsStructuredResult(o) ==
  /\ o.kind = "return"
  /\ o.value.t = "object"
  /\ Success(o).t = "boolean"
  /\ Success(o) = Bool(FALSE) => IsFailureResult(o)

\* C1 as stated: every invocation, whatever its input, ends with execute returning
\* a result object with a boolean success field, failures as {success: false, error}.
C1_EveryInvocationReturnsResult ==
  \A i \in Slots : Finished(i) => IsStructuredResult(out[i])

\* C1 (amended): every invocation whose input passes the tool's input schema ends
\* with execute returning a result object with a boolean success field, every
\* failure met after validation (base64 decoding, request context, transport, body
\* reading, JSON parsing, HTTP status) as {success: false, error}; nothing is
\* thrown.  An input that fails the schema never reaches execute.
C1_ValidInputReturnsResult ==
  \A i \in Slots :
    Finished(i) =>
      \/ /\ out[i].kind = "rejected"
         /\ out[i].issues # {}
         /\ context[i] = Undef
      \/ IsStructuredResult(out[i])

C1_Witness ==
  /\ Finished(1)
  /\ call[1].tool = UploadCertificateB64
  /\ Len(requests[1]) = 0
  /\ IsFailureResult(out[1])

\* C2: an invocation hands at most one request to fetch, also after a transport
\* failure and after a non-2xx response.
C2_AtMostOneRequest ==
  \A i \in Slots :
    /\ Len(requests[i]) <= 1
    /\ response[i].settled # "none" => Len(requests[i]) = 1

C2_Witness ==
  /\ Finished(1)
  /\ response[1].settled = "rejected"
  /\ Len(requests[1]) = 1

\* the properties each tool's input must carry, and those of the elements of a rule
RequiredProperties(tool) ==
  CASE tool \in PrivateKeyTools -> {"name", "certificate", "private_key"}
    [] tool \in {TrustedCA, TrustedCAB64} -> {"name", "certificate"}
    [] tool = CreateDomain -> {"name", "cnames", "edge_application_id"}
    [] tool = PatchDomain -> {"domain_id"}
    [] OTHER -> {"firewall_id", "name", "behaviors", "criteria", "order"}

WafTools == {CreateWafRuleLegacy, CreateWafRule}
CriteriaOf(raw) ==
  IF "criteria" \in DOMAIN raw.v
    THEN UNION {{group.v[k] : k \in 1..Len(group.v)} :
                  group \in {raw.v.criteria.v[g] : g \in 1..Len(raw.v.criteria.v)}}
  ELSE {}
BehaviorsOf(raw) ==
  IF "behaviors" \in DOMAIN raw.v
    THEN {raw.v.behaviors.v[k] : k \in 1..Len(raw.v.behaviors.v)}
  ELSE {}

MissesRequired(tool, raw) ==
  \/ RequiredProperties(tool) \ DOMAIN raw.v # {}
  \/ /\ tool \in WafTools
     /\ \/ \E c \in CriteriaOf(raw) :
             {"variable", "operator", "conditional", "argument"} \ DOMAIN c.v # {}
        \/ \E b \in BehaviorsOf(raw) : "name" \notin DOMAIN b.v

\* property f of o is there and its text is none of allowed
Outside(o, f, allowed) == f \in DOMAIN o.v /\ Flat(o.v[f].v) \notin allowed

EnumOutside(tool, raw) ==
  \/ tool = PatchDomain /\ Outside(raw, "mtls_verification", {"enforce", "permissive"})
  \/ /\ tool \in WafTools
     /\ \/ \E c \in CriteriaOf(raw) :
             \/ Outside(c, "variable",
                        IF tool = CreateWafRule THEN Variables ELSE LegacyVariables)
             \/ Outside(c, "operator",
                        IF tool = CreateWafRule THEN Operators ELSE LegacyOperators)
             \/ Outside(c, "conditional", {"if", "and", "or"})
        \/ \E b \in BehaviorsOf(raw) :
             Outside(b, "name",
                     IF tool = CreateWafRule THEN BehaviorNames ELSE LegacyBehaviorNames)

\* C3: an input that misses a required field, or carries an enumerated field with
\* a value outside its closed set, is rejected by validation and the invocation
\* ends without any request.
C3_InvalidInputNoRequest ==
  \A i \in Slots :
    (pc[i] # "idle" /\ (MissesRequired(call[i].tool, call[i].raw)
                          \/ EnumOutside(call[i].tool, call[i].raw))) =>
      /\ Finished(i)
      /\ out[i].kind = "rejected"
      /\ Len(requests[i]) = 0

C3_Witness ==
  /\ Finished(1)
  /\ call[1].tool = PatchDomain
  /\ ~MissesRequired(PatchDomain, call[1].raw)
  /\ EnumOutside(PatchDomain, call[1].raw)
  /\ out[1].kind = "rejected"
  /\ Len(requests[1]) = 0

\* the tools whose certificate and private_key inputs are base64 texts
Base64Tools == {CreateCertificate, UploadCertificateB64, TrustedCAB64}

\* a text with a character that no base64 text has
IllegalBase64(text) ==
  \E k \in 1..Len(text) : text[k] \notin B64Chars \cup {"="} \cup AsciiWhitespace

\* those that decode them with decodeBase64Certificate
DecodingTools == {UploadCertificateB64, TrustedCAB64}

\* the input carries every required property, and a base64 property is corrupted
CorruptedInput(tool, raw) ==
  /\ tool \in Base64Tools
  /\ ~MissesRequired(tool, raw)
  /\ \E f \in {"certificate", "private_key"} \cap DOMAIN raw.v : IllegalBase64(raw.v[f].v)

\* C4 as stated: with a corrupted base64 certificate or private_key the result of
\* the certificate upload and trusted-CA tools is not a 'Network error: ...' outcome.
C4_CorruptedBase64NotNetworkError ==
  \A i \in Slots :
    (Finished(i) /\ call[i].tool \in DecodingTools
       /\ CorruptedInput(call[i].tool, call[i].raw) /\ out[i].kind = "return") =>
      ~StartsWith(ErrorOf(out[i]), "Network error: ")

\* C5 as stated: with a malformed base64 certificate or private_key the invocation
\* hands no request to fetch, in every tool that takes base64 input.
C5_MalformedBase64NoRequest ==
  \A i \in Slots :
    CorruptedInput(call[i].tool, call[i].raw) => Len(requests[i]) = 0

\* C6: a non-2xx response with status S whose body text B has been read gives
\* exactly {success: false, error: "HTTP S: B"}, B verbatim.
C6_HttpErrorVerbatim ==
  \A i \in Slots :
    (Finished(i) /\ response[i].settled = "resolved" /\ response[i].read = "ok"
       /\ response[i].status \notin 200..299) =>
      /\ IsFailureResult(out[i])
      /\ Flat(ErrorOf(out[i]).v) =
           "HTTP " \o ToString(response[i].status) \o ": " \o response[i].text

C6_Witness ==
  /\ Finished(1)
  /\ response[1].status = 422
  /\ response[1].text = BodyInvalid
  /\ out[1].kind = "return"
  /\ ErrorOf(out[1]).t = "string"
  /\ Flat(ErrorOf(out[1]).v) = "HTTP 422: {\"detail\":\"invalid\"}"

\* the rule results the vendor sends in the body texts that carry all four fields
RuleResults(text) ==
  IF text = BodyRule
    THEN [rule_id |-> Num(42), name |-> Text("x"), is_active |-> Bool(TRUE), order |-> Num(1)]
  ELSE [rule_id |-> Num(0), name |-> Text(""), is_active |-> Bool(FALSE), order |-> Num(0)]

\* C7: a rule creation that gets a 2xx response {results: {id, name, is_active,
\* order}} returns {success: true, rule_id, name, is_active, order} with the
\* vendor's values.
C7_RuleResultFromResponse ==
  \A i \in Slots :
    (Finished(i) /\ call[i].tool \in WafTools /\ response[i].read = "ok"
       /\ response[i].status \in 200..299
       /\ response[i].text \in {BodyRule, BodyRuleFalsy}) =>
      LET expected == RuleResults(response[i].text)
      IN out[i] = Returned(Obj([success |-> Bool(TRUE),
                                rule_id |-> expected.rule_id,
                                name |-> expected.name,
                                is_active |-> expected.is_active,
                                order |-> expected.order]))

C7_Witness ==
  /\ Finished(1)
  /\ call[1].tool = CreateWafRule
  /\ response[1].text = BodyRule
  /\ Get(call[1].raw, "name") = Text("n")
  /\ out[1].kind = "return"
  /\ Get(out[1].value, "name") = Text("x")
  /\ Get(out[1].value, "rule_id") = Num(42)

DomainTools == {CreateDomain, PatchDomain}
BodyOf(i) == requests[i][1].body

\* the fields a domain tool declares without .optional(), and with it
DeclaredRequired(tool) ==
  IF tool = CreateDomain
    THEN {"name", "cnames", "edge_application_id", "cname_access_only", "is_active"}
  ELSE {"domain_id"}
DeclaredOptional(tool) ==
  IF tool = CreateDomain THEN {"digital_certificate_id", "edge_firewall_id"}
  ELSE {"name", "cnames", "cname_access_only", "digital_certificate_id",
        "edge_application_id", "edge_firewall_id", "is_active", "is_mtls_enabled",
        "mtls_verification", "mtls_trusted_ca_certificate_id", "crl_list"}

\* C8 as stated: the body of domain create and domain patch holds exactly the
\* declared required fields plus the optional fields present in the input.
C8_BodyIsRequiredPlusPresent ==
  \A i \in Slots :
    (call[i].tool \in DomainTools /\ Len(requests[i]) = 1) =>
      DOMAIN BodyOf(i).v =
        DeclaredRequired(call[i].tool)
          \cup (DeclaredOptional(call[i].tool) \cap DOMAIN call[i].raw.v)

\* C8 (amended): the body holds exactly the declared required fields other than
\* the path identifier domain_id (which is in the URL only), the defaulted fields
\* (true when absent from the input), and those optional fields that are present
\* in the input, each present field with its input value, falsy or not; no field
\* of the body is null.
C8_BodyFields ==
  \A i \in Slots :
    (call[i].tool \in DomainTools /\ Len(requests[i]) = 1) =>
      LET raw == call[i].raw.v
          body == BodyOf(i).v
      IN /\ DOMAIN body =
              (DeclaredRequired(call[i].tool) \ {"domain_id"})
                \cup (DeclaredOptional(call[i].tool) \cap DOMAIN raw)
         /\ \A f \in DOMAIN body :
              /\ body[f] # Null
              /\ body[f] = IF f \in DOMAIN raw THEN raw[f] ELSE Bool(TRUE)
         /\ call[i].tool = PatchDomain =>
              requests[i][1].url = "https://api.azionapi.net/domains/"
                                     \o ToString(raw.domain_id.v)

C8_Witness ==
  /\ call[1].tool = PatchDomain
  /\ Len(requests[1]) = 1
  /\ DOMAIN BodyOf(1).v = {"cname_access_only", "digital_certificate_id"}
  /\ BodyOf(1).v.cname_access_only = Bool(FALSE)
  /\ BodyOf(1).v.digital_certificate_id = Num(0)

ClearableFields == {"mtls_trusted_ca_certificate_id", "crl_list"}
ClearedFields(raw) == {f \in ClearableFields \cap DOMAIN raw.v : raw.v[f] = Null}

\* C9 as stated: a domain patch whose input sets a clearable field to null is
\* accepted and sends null for that field in the body.
C9_ExplicitNullIsSent ==
  \A i \in Slots :
    (Finished(i) /\ call[i].tool = PatchDomain
       /\ ~MissesRequired(PatchDomain, call[i].raw)
       /\ ~EnumOutside(PatchDomain, call[i].raw)
       /\ ClearedFields(call[i].raw) # {}) =>
      /\ out[i].kind = "return"
      /\ Len(requests[i]) = 1
      /\ \A f \in ClearedFields(call[i].raw) : Get(BodyOf(i), f) = Null

OwnToken(i) ==
  Get(Get(Get(call[i].env, "DECO_CHAT_REQUEST_CONTEXT"), "state"), "azion_token")

\* C10: with two invocations interleaved in every order, the request of each is
\* built from its own input and its own token, and the outcome of each from its
\* own response.
C10_Isolated ==
  \A i \in Slots :
    /\ Len(requests[i]) <= 1
    /\ Len(requests[i]) = 1 =>
         /\ requests[i][1].headers.Authorization = "Token " \o Flat(OwnToken(i).v)
         /\ requests[i][1] =
              ExecuteToFetch(call[i].tool, context[i], call[i].env).request
         /\ context[i] = safeParse(InputSchema(call[i].tool), call[i].raw).data
    /\ (Finished(i) /\ response[i].read = "ok") =>
         out[i] = Returned(OnBody(call[i].tool, context[i],
                                  response[i].status, response[i].text))
    /\ (Finished(i) /\ response[i].settled = "rejected") =>
         out[i] = Returned(CatchResult(response[i].failure))

C10_Witness ==
  /\ pc[1] = "reading"
  /\ pc[2] = "reading"
  /\ call[1].tool = PatchDomain
  /\ call[2].tool = UploadCertificateB64
  /\ requests[1][1].headers.Authorization = "Token tokA"
  /\ requests[2][1].headers.Authorization = "Token tokB"
  /\ response[1].status = 200
  /\ response[2].status = 422

(***************************************************************************)
(* The rule lists in the request body.                                     *)
(***************************************************************************)
CriterionFields == {"variable", "operator", "conditional", "argument"}
BehaviorFields == {"name", "argument"}
BehaviorArgumentFields ==
  {"type", "limit_by", "average_rate_limit", "maximum_burst_size", "waf_id", "mode",
   "status_code", "content_body", "content_type", "function_id", "tag_name", "tag_value"}

\* an input behavior, less the properties its schema does not declare
DeclaredBehavior(b) ==
  LET kept == Only(b, BehaviorFields)
  IN IF Get(kept, "argument").t = "object"
       THEN With(kept, "argument", Only(Get(kept, "argument"), BehaviorArgumentFields))
     ELSE kept

\* C11 as stated: the criteria and behaviors of the request body are the input
\* lists, unchanged.
C11_ListsEqualInput ==
  \A i \in Slots :
    (call[i].tool \in WafTools /\ Len(requests[i]) = 1) =>
      /\ Get(BodyOf(i), "criteria") = Get(call[i].raw, "criteria")
      /\ Get(BodyOf(i), "behaviors") = Get(call[i].raw, "behaviors")

\* C11 (amended): the criteria and behaviors of the request body have the groups
\* and elements of the input lists, in the input's order, each element with the
\* declared properties of the input element and their values; a property the
\* element's schema does not declare is dropped by validation.
C11_ListsKeepDeclared ==
  \A i \in Slots :
    (call[i].tool \in WafTools /\ Len(requests[i]) = 1) =>
      LET sent == Get(BodyOf(i), "criteria").v
          given == Get(call[i].raw, "criteria").v
          sentB == Get(BodyOf(i), "behaviors").v
          givenB == Get(call[i].raw, "behaviors").v
      IN /\ Len(sent) = Len(given)
         /\ \A g \in 1..Len(given) :
              /\ Len(sent[g].v) = Len(given[g].v)
              /\ \A k \in 1..Len(given[g].v) :
                   sent[g].v[k] = Only(given[g].v[k], CriterionFields)
         /\ Len(sentB) = Len(givenB)
         /\ \A k \in 1..Len(givenB) : sentB[k] = DeclaredBehavior(givenB[k])

C11_Witness ==
  /\ call[1].tool = CreateWafRule
  /\ Len(requests[1]) = 1
  /\ Get(call[1].raw, "criteria") = Arr(<<Arr(<<CritIf, CritAnd>>), Arr(<<CritUndeclared>>)>>)
  /\ Get(BodyOf(1), "criteria") = Arr(<<Arr(<<CritIf, CritAnd>>), Arr(<<CritIf>>)>>)

\* C12: every request handed to fetch carries Accept 'application/json;
\* version=3', Content-Type 'application/json', and an Authorization header made
\* of 'Token ' and the azion_token of the request context of the tool's env.
C12_RequestHeaders ==
  \A i \in Slots :
    \A k \in 1..Len(requests[i]) :
      /\ requests[i][k].headers.Accept = "application/json; version=3"
      /\ requests[i][k].headers.ContentType = "application/json"
      /\ requests[i][k].headers.Authorization = "Token " \o TemplateText(OwnToken(i))

C12_Witness ==
  /\ call[1].tool = CreateDomain
  /\ call[1].env = EnvB
  /\ Len(requests[1]) = 1
  /\ requests[1][1].headers.Authorization = "Token tokB"

\* C13 as stated: a token passed as the input property named token is the one
\* the request is authenticated with.
C13_InputTokenAuthenticates ==
  \A i \in Slots :
    (call[i].tool \in TokenParameterTools /\ Len(requests[i]) = 1
       /\ "token" \in DOMAIN call[i].raw.v) =>
      requests[i][1].headers.Authorization = "Token " \o TemplateText(Get(call[i].raw, "token"))

\* C14: each operation's request has its fixed method and path; a trusted-CA body
\* has certificate_type 'trusted_ca_certificate' and no private_key, and a
\* certificate-upload body has a private_key and no certificate_type.
C14_MethodPathAndType ==
  \A i \in Slots :
    Len(requests[i]) = 1 =>
      LET tool == call[i].tool
          r == requests[i][1]
          raw == call[i].raw
      IN /\ tool \in CertificateTools =>
              /\ r.method = "POST"
              /\ r.url = "https://api.azionapi.net/digital_certificates"
         /\ tool = CreateDomain =>
              /\ r.method = "POST"
              /\ r.url = "https://api.azionapi.net/domains"
         /\ tool = PatchDomain =>
              /\ r.method = "PATCH"
              /\ r.url = "https://api.azionapi.net/domains/"
                           \o ToString(Get(raw, "domain_id").v)
         /\ tool \in WafTools =>
              /\ r.method = "POST"
              /\ r.url = "https://api.azionapi.net/edge_firewall/"
                           \o ToString(Get(raw, "firewall_id").v) \o "/rules_engine"
         /\ tool \in CertificateTools \ PrivateKeyTools =>
              /\ Get(r.body, "certificate_type") = Text("trusted_ca_certificate")
              /\ "private_key" \notin DOMAIN r.body.v
         /\ tool \in PrivateKeyTools =>
              /\ Get(r.body, "private_key").t = "string"
              /\ "certificate_type" \notin DOMAIN r.body.v

C14_Witness ==
  /\ call[1].tool = TrustedCAB64
  /\ Len(requests[1]) = 1
  /\ requests[1][1].method = "POST"
  /\ DOMAIN requests[1][1].body.v = {"name", "certificate", "certificate_type"}

\* the fields a tool declares with .default(true)
DefaultedFields(tool) ==
  IF tool = CreateDomain THEN {"is_active", "cname_access_only"}
  ELSE IF tool \in WafTools THEN {"is_active"}
  ELSE {}

\* C15: a field declared with a default reaches the request body as true when
\* the input leaves it out, and with the input's value, false included, when the
\* input gives it.
C15_DefaultsReachBody ==
  \A i \in Slots :
    Len(requests[i]) = 1 =>
      \A f \in DefaultedFields(call[i].tool) :
        Get(BodyOf(i), f) =
          IF f \in DOMAIN call[i].raw.v THEN call[i].raw.v[f] ELSE Bool(TRUE)

C15_Witness ==
  /\ call[1].tool = CreateWafRule
  /\ Len(requests[1]) = 1
  /\ "is_active" \notin DOMAIN call[1].raw.v
  /\ Get(BodyOf(1), "is_active") = Bool(TRUE)

\* C16 as stated: in every rule that is submitted, the first criterion of each
\* group has conditional 'if' and every later one 'and' or 'or'.
C16_FirstCriterionIsIf ==
  \A i \in Slots :
    (call[i].tool \in WafTools /\ Len(requests[i]) = 1) =>
      LET groups == Get(BodyOf(i), "criteria").v
      IN \A g \in 1..Len(groups) :
           \A k \in 1..Len(groups[g].v) :
             Get(groups[g].v[k], "conditional") \in
               (IF k = 1 THEN {Text("if")} ELSE {Text("and"), Text("or")})

\* the element schemas of a rule tool
CriterionSchemaOf(tool) ==
  IF tool = CreateWafRuleLegacy THEN CriterionSchemaLegacy ELSE CriterionSchema
BehaviorSchemaOf(tool) ==
  IF tool = CreateWafRuleLegacy THEN BehaviorSchemaLegacy ELSE BehaviorSchema

\* the positions of the list elements of a rule input that violate their own
\* element schema, as paths into the input
BadElements(tool, raw) ==
  LET groups == Get(raw, "criteria").v
      behaviors == Get(raw, "behaviors").v
  IN UNION {{<<"criteria", ToString(g), ToString(k)>> : k \in
                {n \in 1..Len(groups[g].v) :
                   ZodIssues(CriterionSchemaOf(tool), groups[g].v[n], <<>>) # {}}} :
              g \in 1..Len(groups)}
       \cup {<<"behaviors", ToString(k)>> : k \in
               {n \in 1..Len(behaviors) :
                  ZodIssues(BehaviorSchemaOf(tool), behaviors[n], <<>>) # {}}}

\* p begins with q
PathUnder(p, q) == Len(p) >= Len(q) /\ SubSeq(p, 1, Len(q)) = q

\* C17: a rule whose lists are empty or hold only elements that satisfy their
\* element schema passes validation and is submitted, zero groups, an empty
\* group and zero behaviors included; a rule with an element that violates its
\* element schema is rejected, with an issue at that element, wherever it sits.
\* (The request context holds a token.)
C17_ElementWiseValidation ==
  \A i \in Slots :
    (call[i].tool \in WafTools /\ pc[i] \notin {"idle", "validated"}
       /\ DOMAIN call[i].raw.v = DOMAIN WafRuleFull.v
       /\ call[i].env \in {EnvA, EnvB}) =>
      LET bad == BadElements(call[i].tool, call[i].raw)
      IN IF bad = {}
           THEN out[i].kind # "rejected" /\ Len(requests[i]) = 1
         ELSE /\ out[i].kind = "rejected"
              /\ Len(requests[i]) = 0
              /\ \A e \in bad : \E p \in out[i].issues : PathUnder(p, e)
              /\ \A p \in out[i].issues : \E e \in bad : PathUnder(p, e)

C17_Witness ==
  /\ call[1].tool = CreateWafRule
  /\ Get(call[1].raw, "criteria") = Arr(<<>>)
  /\ Get(call[1].raw, "behaviors") = Arr(<<>>)
  /\ Len(requests[1]) = 1
  /\ Get(BodyOf(1), "criteria") = Arr(<<>>)

\* whether x satisfies the contract patchDomainTool declares for field f
PatchDomainFieldOk(f, x) ==
  LET strings == x.t = "array" /\ \A k \in 1..Len(x.v) : x.v[k].t = "string"
  IN CASE f = "domain_id" -> x.t = "number"
       [] x.t = "undefined" -> TRUE
       [] f = "name" -> x.t = "string"
       [] f \in {"cnames", "crl_list"} -> strings
       [] f \in {"cname_access_only", "is_active", "is_mtls_enabled"} -> x.t = "boolean"
       [] f = "mtls_verification" -> x \in {Text("enforce"), Text("permissive")}
       [] OTHER -> x.t = "number"

\* the properties of the input that violate the schema of the tool
ViolatingFields(tool, raw) ==
  IF tool = PatchDomain
    THEN {f \in DOMAIN PatchDomainFull.v : ~PatchDomainFieldOk(f, Get(raw, f))}
  ELSE {f \in DOMAIN InputSchema(tool).shape :
          ZodIssues(InputSchema(tool).shape[f], Get(raw, f), <<>>) # {}}

\* C18: a validation failure names every property of the input that violates its
\* contract, and no other.
C18_EveryViolationReported ==
  \A i \in Slots :
    out[i].kind = "rejected" =>
      /\ {p[1] : p \in out[i].issues} = ViolatingFields(call[i].tool, call[i].raw)
      /\ out[i].issues # {}

C18_Witness ==
  /\ call[1].tool = PatchDomain
  /\ call[1].raw = PatchDomainManyViolations
  /\ out[1].kind = "rejected"
  /\ {p[1] : p \in out[1].issues} = {"domain_id", "name", "mtls_verification", "crl_list"}

\* the property of the response's results payload an output property is taken from
SourceField(f) == IF f \in {"certificate_id", "domain_id", "rule_id"} THEN "id" ELSE f

\* property g of the results payload of a JSON text, undefined when the payload
\* or the property is not there
ResultsField(text, g) ==
  LET result == JSONParse(text).value
      results == IF result.t = "object" /\ "results" \in DOMAIN result.v
                   THEN result.v.results ELSE Undef
  IN IF results.t = "object" /\ g \in DOMAIN results.v THEN results.v[g] ELSE Undef

\* C19 as stated: on a 2xx response the output has success = true.
C19_SuccessOn2xx ==
  \A i \in Slots :
    (Finished(i) /\ response[i].read = "ok" /\ response[i].status \in 200..299) =>
      /\ out[i].kind = "return"
      /\ Success(out[i]) = Bool(TRUE)

\* C19 (amended): on a 2xx response whose body is the JSON text of a value other
\* than null, the output has success = true and every other property of it is
\* the same-purpose property of the results payload, undefined when the payload
\* or the property is absent; on a 2xx response whose body is not JSON text, or
\* is null, the output is {success: false, error: 'Network error: ...'}.
C19_OutputFromResults ==
  \A i \in Slots :
    (Finished(i) /\ response[i].read = "ok" /\ response[i].status \in 200..299) =>
      LET parsed == JSONParse(response[i].text)
      IN IF parsed.ok /\ parsed.value # Null
           THEN /\ out[i].kind = "return"
                /\ Success(out[i]) = Bool(TRUE)
                /\ "error" \notin DOMAIN out[i].value.v
                /\ \A f \in DOMAIN out[i].value.v \ {"success"} :
                     out[i].value.v[f] = ResultsField(response[i].text, SourceField(f))
         ELSE /\ IsFailureResult(out[i])
              /\ StartsWith(ErrorOf(out[i]), "Network error: ")

C19_Witness ==
  /\ Finished(1)
  /\ call[1].tool = PatchDomain
  /\ Get(call[1].raw, "name") = Text("n")
  /\ response[1].status = 200
  /\ response[1].text = BodyPartial
  /\ Get(out[1].value, "domain_id") = Num(7)
  /\ Get(out[1].value, "name") = Undef

\* C20: when fetch rejects, the result is {success: false, error: 'Network error: '
\* followed by the message of the failure}, with no other property, and the
\* request has been handed to fetch once.
C20_TransportFailureResult ==
  \A i \in Slots :
    (Finished(i) /\ response[i].settled = "rejected") =>
      /\ response[i].failure \in {"fetch failed", "Network connection lost."}
      /\ out[i] = Returned(Obj([success |-> Bool(FALSE),
                                error |-> Str(<<"Network error: ", response[i].failure>>)]))
      /\ Len(requests[i]) = 1

C20_Witness ==
  /\ Finished(1)
  /\ call[1].tool = PatchDomain
  /\ response[1].failure = "Network connection lost."
  /\ ErrorOf(out[1]) = Str(<<"Network error: ", "Network connection lost.">>)

\* C21 as stated: a certificate or private_key that is the base64 encoding of the
\* bytes c is sent in the request body as c, one character per byte, by every
\* tool that decodes base64.
C21_RoundTrip ==
  \A i \in Slots :
    (call[i].tool \in Base64Tools /\ Len(requests[i]) = 1) =>
      \A c \in EncodedContents :
        \A f \in {"certificate", "private_key"} \cap DOMAIN call[i].raw.v :
          call[i].raw.v[f] = Str(Base64Encode(c)) => Get(BodyOf(i), f) = Str(CodeUnits(c))

\* C22 as stated: once fetch has resolved with a response, the outcome is never a
\* 'Network error: ...' result: it is the 'HTTP ...' failure on a status outside
\* 200..299 and the mapped success on a status inside, also when reading or
\* JSON-parsing the body fails.
C22_NetworkErrorOnlyWithoutResponse ==
  \A i \in Slots :
    (Finished(i) /\ response[i].settled = "resolved") =>
      /\ out[i].kind = "return"
      /\ ~StartsWith(ErrorOf(out[i]), "Network error: ")
      /\ IF response[i].status \in 200..299
           THEN Success(out[i]) = Bool(TRUE)
           ELSE StartsWith(ErrorOf(out[i]), "HTTP ")

ExistenceOperators == {"exists", "does_not_exist"}

\* C23 as stated: validation accepts a criterion whose operator is exists or
\* does_not_exist with its argument absent; for every other operator it reports
\* an argument that is not a string.
C23_ExistenceOperatorNoArgument ==
  \A i \in Slots :
    (call[i].tool \in WafTools /\ pc[i] \notin {"idle", "validated"}
       /\ DOMAIN call[i].raw.v = DOMAIN WafRuleFull.v) =>
      LET groups == Get(call[i].raw, "criteria").v
      IN \A g \in 1..Len(groups) : \A k \in 1..Len(groups[g].v) :
           LET criterion == groups[g].v[k]
               at == <<"criteria", ToString(g), ToString(k), "argument">>
           IN IF /\ Get(criterion, "operator").t = "string"
                 /\ Flat(Get(criterion, "operator").v) \in ExistenceOperators
                THEN Get(criterion, "argument") = Undef => at \notin out[i].issues
              ELSE Get(criterion, "argument").t # "string" => at \in out[i].issues

BehaviorNamesOf(tool) ==
  IF tool = CreateWafRuleLegacy THEN LegacyBehaviorNames ELSE BehaviorNames

\* C24: in both versions of the rule tool a behavior with an enumerated name and
\* no argument raises no validation issue, whatever the name, and when the rule
\* is submitted the behavior is in the request body as it was given.
C24_ArgumentNeverRequired ==
  /\ \A tool \in WafTools : \A name \in BehaviorNamesOf(tool) :
       LET behavior == Obj([name |-> Text(name)])
       IN /\ ZodIssues(BehaviorSchemaOf(tool), behavior, <<>>) = {}
          /\ ZodOutput(BehaviorSchemaOf(tool), behavior) = behavior
  /\ \A i \in Slots :
       (call[i].tool \in WafTools /\ pc[i] \notin {"idle", "validated"}
          /\ DOMAIN call[i].raw.v = DOMAIN WafRuleFull.v) =>
         LET behaviors == Get(call[i].raw, "behaviors").v
         IN \A k \in 1..Len(behaviors) :
              (/\ DOMAIN behaviors[k].v = {"name"}
               /\ Get(behaviors[k], "name").t = "string"
               /\ Flat(Get(behaviors[k], "name").v) \in BehaviorNamesOf(call[i].tool)) =>
                /\ \A p \in out[i].issues : ~PathUnder(p, <<"behaviors", ToString(k)>>)
                /\ Len(requests[i]) = 1 => Get(BodyOf(i), "behaviors").v[k] = behaviors[k]

C24_Witness ==
  /\ call[1].tool = CreateWafRuleLegacy
  /\ Get(call[1].raw, "behaviors") = Arr(<<BehRedirectNoArgument, BehRunFunctionNoArgument>>)
  /\ Len(requests[1]) = 1
  /\ Get(BodyOf(1), "behaviors") = Arr(<<BehRedirectNoArgument, BehRunFunctionNoArgument>>)

\* how far an invocation has come: validation, building the request, the
\* network call, reading and mapping the response, the outcome
PhaseRank(p) ==
  CASE p = "idle" -> 0
    [] p = "validated" -> 1
    [] p = "fetching" -> 2
    [] p = "reading" -> 3
    [] p = "done" -> 4

\* C25 as stated: an invocation whose input passed validation hands its one
\* request to fetch, and whether it ends in success or in failure is decided by
\* the classification of the response alone: success exactly on a 2xx status.
C25_OnlySubmitterBranches ==
  \A i \in Slots :
    (Finished(i) /\ out[i].kind # "rejected") =>
      /\ Len(requests[i]) = 1
      /\ out[i].kind = "return"
      /\ Success(out[i]) = Bool(TRUE) <=>
           (response[i].settled = "resolved" /\ response[i].status \in 200..299)

\* C25 (amended): an invocation only moves forward through validation, building
\* the request, the network call and reading the response, each at most once;
\* the request handed to fetch is the one built from the parsed input and is
\* never changed afterwards; an outcome is set only when the invocation ends;
\* and a success outcome is set only after reading a response with a 2xx status.
C25_LinearPhases ==
  [][\A i \in Slots :
       /\ pc'[i] # pc[i] =>
            \/ PhaseRank(pc'[i]) > PhaseRank(pc[i])
            \/ pc[i] = "done" /\ pc'[i] = "idle"
       /\ requests'[i] # requests[i] =>
            \/ /\ pc[i] = "validated" /\ pc'[i] = "fetching"
               /\ requests'[i] =
                    <<ExecuteToFetch(call[i].tool, context[i], call[i].env).request>>
            \/ pc'[i] = "idle" /\ requests'[i] = <<>>
       /\ pc'[i] \in {"fetching", "reading"} => Len(requests'[i]) = 1
       /\ (out'[i] # out[i] /\ pc'[i] # "idle") => (pc[i] # "done" /\ pc'[i] = "done")
       /\ (out'[i] # out[i] /\ out'[i].kind = "return"
             /\ Success(out'[i]) = Bool(TRUE)) =>
            /\ pc[i] = "reading"
            /\ response[i].settled = "resolved"
            /\ response[i].status \in 200..299
            /\ response'[i].read = "ok"]_vars

C25_Witness ==
  /\ Finished(1)
  /\ call[1].tool = UploadCertificateB64
  /\ Len(requests[1]) = 1
  /\ response[1].settled = "resolved"
  /\ response[1].status = 299
  /\ response[1].read = "ok"
  /\ Success(out[1]) = Bool(TRUE)

\* C26 as stated: an invocation that was cancelled while its network call was
\* pending ends with {success: false, error: 'Network error: ...'}, never with
\* success.
C26_CancelledEndsAsNetworkError ==
  \A i \in Slots :
    (Finished(i) /\ cancelled[i]) =>
      /\ IsFailureResult(out[i])
      /\ StartsWith(ErrorOf(out[i]), "Network error: ")

\* what an invocation of call c ends with when the vendor's side behaves as r
\* records, computed from c and r alone
OutcomeOf(c, r) ==
  LET parsed == safeParse(InputSchema(c.tool), c.raw)
      step == ExecuteToFetch(c.tool, parsed.data, c.env)
  IN IF ~parsed.success THEN Rejected(parsed.issues)
     ELSE IF ~step.fetch THEN step.outcome
     ELSE IF r.settled = "rejected" THEN Returned(CatchResult(r.failure))
     ELSE IF r.read = "failed" THEN Returned(CatchResult(ErrorText(BodyTerminated)))
     ELSE Returned(OnBody(c.tool, parsed.data, r.status, r.text))

\* the requests an invocation of call c has handed to fetch once execute has
\* reached fetch or ended, computed from c alone
RequestsOf(c) ==
  LET parsed == safeParse(InputSchema(c.tool), c.raw)
      step == ExecuteToFetch(c.tool, parsed.data, c.env)
  IN IF parsed.success /\ step.fetch THEN <<step.request>> ELSE <<>>

\* C27: whatever invocations came before, an invocation starts with no request
\* and no outcome, the request it issues is the one determined by its own input
\* and token, and the output it ends with is the one determined by its own
\* input, token and vendor response: the same as had it been the first.
C27_NothingSurvives ==
  \A i \in Slots :
    /\ pc[i] \in {"idle", "validated"} => requests[i] = <<>>
    /\ pc[i] \in {"fetching", "reading", "done"} => requests[i] = RequestsOf(call[i])
    /\ pc[i] # "done" => out[i] = NoOutcome
    /\ pc[i] \in {"idle", "validated"} => response[i] = NoResponse
    /\ Finished(i) => out[i] = OutcomeOf(call[i], response[i])

C27_Witness ==
  /\ served[1] = MaxServed
  /\ Finished(1)
  /\ call[1].tool = CreateDomain
  /\ call[1].env = EnvB
  /\ requests[1] = RequestsOf(call[1])
  /\ requests[1][1].headers.Authorization = "Token tokB"
  /\ response[1].status = 200
  /\ response[1].text = BodyRule
  /\ Success(out[1]) = Bool(TRUE)

\* C28: an output returned by execute has a boolean success; with success true
\* it has no error property; with success false it has an error string that
\* begins with 'HTTP ' or 'Network error: ' and no property besides success and
\* error.
C28_SuccessExcludesError ==
  \A i \in Slots :
    (Finished(i) /\ out[i].kind = "return") =>
      /\ out[i].value.t = "object"
      /\ Success(out[i]) \in {Bool(TRUE), Bool(FALSE)}
      /\ Success(out[i]) = Bool(TRUE) => "error" \notin DOMAIN out[i].value.v
      /\ Success(out[i]) = Bool(FALSE) =>
           /\ DOMAIN out[i].value.v = {"success", "error"}
           /\ ErrorOf(out[i]).t = "string"
           /\ \/ StartsWith(ErrorOf(out[i]), "HTTP ")
              \/ StartsWith(ErrorOf(out[i]), "Network error: ")

C28_Witness ==
  /\ Finished(1)
  /\ call[1].tool = TrustedCAB64
  /\ response[1].status = 300
  /\ out[1].kind = "return"
  /\ Success(out[1]) = Bool(FALSE)
  /\ StartsWith(ErrorOf(out[1]), "HTTP ")
  /\ DOMAIN out[1].value.v = {"success", "error"}

\* the request context has a state object to read the token from
HasState(env) ==
  PropRead(Get(env, "DECO_CHAT_REQUEST_CONTEXT"), "state").ok
    /\ Get(Get(env, "DECO_CHAT_REQUEST_CONTEXT"), "state").t = "object"

\* C29: a domain patch whose input holds domain_id alone issues one PATCH to
\* /domains/{domain_id} with the empty object as body; and the body of a patch
\* never has a domain_id property, the body of a rule creation never a
\* firewall_id property: the identifier is in the URL alone.
\* (The request context has a state object.)
C29_PathIdentifierOnlyInUrl ==
  \A i \in Slots :
    /\ (call[i].tool = PatchDomain /\ pc[i] \notin {"idle", "validated"}
          /\ DOMAIN call[i].raw.v = {"domain_id"} /\ call[i].raw.v.domain_id.t = "number"
          /\ HasState(call[i].env)) =>
         /\ Len(requests[i]) = 1
         /\ requests[i][1].method = "PATCH"
         /\ requests[i][1].url =
              "https://api.azionapi.net/domains/" \o ToString(call[i].raw.v.domain_id.v)
         /\ BodyOf(i) = EmptyObj
    /\ (call[i].tool = PatchDomain /\ Len(requests[i]) >= 1) =>
         \A k \in 1..Len(requests[i]) :
           /\ "domain_id" \notin DOMAIN requests[i][k].body.v
           /\ requests[i][k].url =
                "https://api.azionapi.net/domains/" \o ToString(call[i].raw.v.domain_id.v)
    /\ (call[i].tool \in WafTools /\ Len(requests[i]) >= 1) =>
         \A k \in 1..Len(requests[i]) :
           /\ "firewall_id" \notin DOMAIN requests[i][k].body.v
           /\ requests[i][k].url =
                "https://api.azionapi.net/edge_firewall/"
                  \o ToString(call[i].raw.v.firewall_id.v) \o "/rules_engine"

C29_Witness ==
  /\ call[1].tool = PatchDomain
  /\ call[1].raw = Obj([domain_id |-> Num(1)])
  /\ Len(requests[1]) = 1
  /\ requests[1][1].method = "PATCH"
  /\ requests[1][1].url = "https://api.azionapi.net/domains/1"
  /\ BodyOf(1) = EmptyObj

\* C30: with a state object in the request context, an invocation whose input
\* is valid and decodable issues its one request whether or not the state holds
\* a token, the Authorization header built from what is there ('Token undefined'
\* without one), and its output is decided by the vendor's response; with the
\* request context or its state object missing it issues no request and ends
\* with {success: false, error: 'Network error: ...'}.
C30_TokenNeverChecked ==
  \A i \in Slots :
    (pc[i] \in {"fetching", "reading", "done"} /\ out[i].kind # "rejected"
       /\ \A f \in {"certificate", "private_key"} \cap DOMAIN context[i].v :
            DecodeField(call[i].tool, context[i].v[f]).ok) =>
      IF HasState(call[i].env)
        THEN /\ Len(requests[i]) = 1
             /\ requests[i][1].headers.Authorization = "Token " \o TemplateText(OwnToken(i))
             /\ OwnToken(i) = Undef =>
                  requests[i][1].headers.Authorization = "Token undefined"
             /\ (Finished(i) /\ response[i].read = "ok") =>
                  out[i] = Returned(OnBody(call[i].tool, context[i],
                                           response[i].status, response[i].text))
      ELSE /\ Len(requests[i]) = 0
           /\ Finished(i)
           /\ IsFailureResult(out[i])
           /\ StartsWith(ErrorOf(out[i]), "Network error: ")

C30_Witness ==
  /\ Finished(1)
  /\ call[1].tool = UploadCertificateB64
  /\ call[1].env = EnvNoToken
  /\ Len(requests[1]) = 1
  /\ requests[1][1].headers.Authorization = "Token undefined"
  /\ response[1].status = 200
  /\ response[1].text = BodyRule
  /\ Success(out[1]) = Bool(TRUE)

====
